---- MODULE Spec2Model ----
(***************************************************************************)
(* Model of carve (src/src/main.rs): an interactive pager over a growing   *)
(* line buffer.  The ingestor task appends lines to the shared buffer;     *)
(* the view loop alternates drawing a frame and polling for one key.       *)
(* Strings are sequences of one-character strings; all offsets are the     *)
(* 0-based byte offsets of the source.                                     *)
(***************************************************************************)
EXTENDS Integers, Sequences, FiniteSets, TLC

\* ---- bounds of the model ----
\* bytes read from stdin, the newline of each line included
MaxInput == 5
\* characters typed into the query and the filter together
MaxText == 1
\* bounds of the inputs of SearchSpec: bytes of the buffer, of the query
SearchMaxInput == 6
SearchMaxQuery == 3

\* the terminal heights
Heights == {1, 2}

\* the characters of the input lines and of the text typed in Search and
\* Filter mode; both are commands too when typed in Normal mode
Chars == {"n", "q"}

RECURSIVE StringsUpTo(_)
StringsUpTo(n) ==
    IF n = 0 THEN {<<>>}
    ELSE LET shorter == StringsUpTo(n - 1)
         IN  shorter \cup {Append(s, c) : s \in shorter, c \in Chars}

VARIABLES
    lines,          \* App.lines: the shared buffer
    scroll,         \* App.scroll
    mode,           \* App.mode
    tailing,        \* App.tailing
    filter,         \* App.filter
    search_query,   \* App.search_query
    current_match,  \* App.current_match
    matches,        \* App.matches: <<line_index, start, end>>
    view_height,    \* terminal height, frame.area().height
    pc,             \* position of the view loop: draw, poll, done, panicked
    output,         \* lines printed to stdout after the loop
    received,       \* lines the input stream has delivered to the ingestor
    appends,        \* number of pushes the ingestor has completed
    idle            \* TRUE while no key event has been read

vars == <<lines, scroll, mode, tailing, filter, search_query, current_match,
          matches, view_height, pc, output, received, appends, idle>>

\* ---- helpers for Rust library calls ----

Min(a, b) == IF a < b THEN a ELSE b

\* usize::saturating_sub
SatSub(a, b) == IF a > b THEN a - b ELSE 0

\* line[from..to] with 0-based half-open offsets
Slice(line, from, to) == SubSeq(line, from + 1, to)

\* str::contains
Contains(line, pat) ==
    \E s \in 0..(Len(line) - Len(pat)) : Slice(line, s, s + Len(pat)) = pat

\* match_indices that resumes one byte after the start of a match
RECURSIVE MatchIndicesOverlapping(_, _, _)
MatchIndicesOverlapping(line, pat, from) ==
    IF from + Len(pat) > Len(line) THEN <<>>
    ELSE IF Slice(line, from, from + Len(pat)) = pat
         THEN <<from>> \o MatchIndicesOverlapping(line, pat, from + 1)
         ELSE MatchIndicesOverlapping(line, pat, from + 1)

\* str::match_indices for a non-empty pattern: start offsets of the
\* leftmost non-overlapping occurrences, scanning resumes after each match
RECURSIVE MatchIndices(_, _, _)
MatchIndices(line, pat, from) ==
    IF from + Len(pat) > Len(line) THEN <<>>
    ELSE IF Slice(line, from, from + Len(pat)) = pat
         THEN <<from>> \o MatchIndices(line, pat, from + Len(pat))
         ELSE MatchIndices(line, pat, from + 1)

\* a filter that matches at the start of the line only
PassesPrefix(line, f) ==
    f = <<>> \/ (Len(f) <= Len(line) /\ Slice(line, 0, Len(f)) = f)

\* the filter closure of the draw and of the exit output
Passes(line, f) == f = <<>> \/ Contains(line, f)

RECURSIVE FilterLines(_, _)
FilterLines(ls, f) ==
    IF ls = <<>> THEN <<>>
    ELSE IF Passes(Head(ls), f)
         THEN <<Head(ls)>> \o FilterLines(Tail(ls), f)
         ELSE FilterLines(Tail(ls), f)

\* App::len
AppLen == Len(lines)

\* ---- App methods ----

\* the inner loop of update_search for one line
LineMatches(line_idx, line, q) ==
    LET starts == MatchIndices(line, q, 0)
    IN  [k \in 1..Len(starts) |-> <<line_idx, starts[k], starts[k] + Len(q)>>]

RECURSIVE SearchFrom(_, _, _)
SearchFrom(ls, q, line_idx) ==
    IF line_idx >= Len(ls) THEN <<>>
    ELSE LineMatches(line_idx, ls[line_idx + 1], q) \o SearchFrom(ls, q, line_idx + 1)

\* App::update_search: the new value of matches
UpdateSearch(ls, q) == IF q = <<>> THEN <<>> ELSE SearchFrom(ls, q, 0)

\* App::scroll_down
ScrollDown(s, amount, max_scroll) == Min(s + amount, max_scroll)

\* App::scroll_up
ScrollUp(s, amount) == SatSub(s, amount)

\* App::next_match: the new cursor
NextCursor(cur, n) == (cur + 1) % n

\* App::prev_match: the new cursor
PrevCursor(cur, n) == IF cur >= 1 THEN cur - 1 ELSE n - 1

\* matches.get(i) is Some
HasMatch(i) == i < Len(matches)

MatchLine(i) == matches[i + 1][1]

Init ==
    /\ lines = <<>>
    /\ scroll = 0
    /\ mode = "Normal"
    /\ tailing = TRUE
    /\ filter = <<>>
    /\ search_query = <<>>
    /\ current_match = 0
    /\ matches = <<>>
    /\ view_height \in Heights
    /\ pc = "draw"
    /\ output = <<>>
    /\ received = <<>>
    /\ appends = 0
    /\ idle = TRUE

\* the bytes of stdin that the lines of ls came from
RECURSIVE InputBytes(_)
InputBytes(ls) ==
    IF ls = <<>> THEN 0 ELSE Len(Head(ls)) + 1 + InputBytes(Tail(ls))

\* a push at the front of the buffer
PushFront(ls, l) == <<l>> \o ls

\* lines_vec.push(line)
Push(ls, l) == Append(ls, l)

\* the ingestor task: one line read from stdin and pushed under the lock
Ingest ==
    /\ pc \in {"draw", "poll"}
    /\ InputBytes(lines) < MaxInput
    /\ \E l \in StringsUpTo(MaxInput - InputBytes(lines) - 1) :
        /\ received' = Append(received, l)
        /\ lines' = Push(lines, l)
    /\ appends' = appends + 1
    /\ UNCHANGED <<scroll, mode, tailing, filter, search_query, current_match,
                   matches, view_height, pc, output, idle>>

\* ---- the frame builder (the closure passed to terminal.draw) ----

\* the lines that pass the filter, in buffer order: the items of the list
Visible == FilterLines(lines, filter)

\* positions of the filtered sequence that the draw processes
InWindow(idx) == idx >= scroll /\ idx < scroll + view_height

\* line_matches: positions in the match list whose line_index equals idx
\* (idx is the position given by enumerate() after the filter)
LineMatchIdx(idx) ==
    SelectSeq([k \in 1..Len(matches) |-> k - 1],
              LAMBDA k : matches[k + 1][1] = idx)

RawSpan(text) == [text |-> text, highlighted |-> FALSE, current |-> FALSE]

StyledSpan(text, match_idx) ==
    [text |-> text, highlighted |-> TRUE, current |-> (match_idx = current_match)]

\* the for loop over line_matches; a slice out of range panics
RECURSIVE BuildSpans(_, _, _, _, _)
BuildSpans(line, ms, k, last_end, spans) ==
    IF k > Len(ms)
    THEN [panic |-> FALSE, last_end |-> last_end, spans |-> spans]
    ELSE LET match_idx == ms[k]
             start == matches[match_idx + 1][2]
             end == matches[match_idx + 1][3]
             before == IF last_end < start
                       THEN <<RawSpan(Slice(line, last_end, start))>>
                       ELSE <<>>
         IN  IF start > Len(line) \/ end > Len(line) \/ start > end
             THEN [panic |-> TRUE, last_end |-> last_end, spans |-> spans]
             ELSE BuildSpans(line, ms, k + 1, end,
                             spans \o before \o <<StyledSpan(Slice(line, start, end), match_idx)>>)

\* the spans of one row inside the window
RowSpans(idx, line) ==
    LET r == BuildSpans(line, LineMatchIdx(idx), 1, 0, <<>>)
        rest == IF r.last_end < Len(line)
                THEN <<RawSpan(Slice(line, r.last_end, Len(line)))>>
                ELSE <<>>
        all == r.spans \o rest
    IN  IF r.panic THEN r
        ELSE [panic |-> FALSE, last_end |-> r.last_end,
              spans |-> IF all = <<>> THEN <<RawSpan(line)>> ELSE all]

WindowRows == {idx \in 0..(Len(Visible) - 1) : InWindow(idx)}

\* the draw panics when a row inside the window slices out of range
DrawPanics == \E idx \in WindowRows : RowSpans(idx, Visible[idx + 1]).panic

\* terminal.draw: builds the frame from the state, which it does not change
Draw ==
    /\ pc = "draw"
    /\ pc' = IF DrawPanics THEN "panicked" ELSE "poll"
    /\ UNCHANGED <<lines, scroll, mode, tailing, filter, search_query,
                   current_match, matches, view_height, output, received, appends, idle>>

\* ---- the input handler ----

\* event::poll timed out, or the event was not a key
Timeout ==
    /\ pc = "poll"
    /\ pc' = "draw"
    /\ UNCHANGED <<lines, scroll, mode, tailing, filter, search_query,
                   current_match, matches, view_height, output, received, appends, idle>>

\* a key event was read and its arm ran; the loop goes on
KeyRead ==
    /\ pc = "poll"
    /\ pc' = "draw"
    /\ idle' = FALSE
    /\ UNCHANGED <<lines, view_height, output, received, appends>>

\* an exit output that prints the whole buffer
ExitOutputUnfiltered(ls, f) == ls

\* the lines printed after the loop: those that pass the filter
ExitOutput(ls, f) == FilterLines(ls, f)

\* (Mode::Normal, KeyCode::Char('q')) => break, then the exit output
KeyQuit ==
    /\ pc = "poll"
    /\ mode = "Normal"
    /\ pc' = "done"
    /\ idle' = FALSE
    /\ output' = ExitOutput(lines, filter)
    /\ UNCHANGED <<lines, scroll, mode, tailing, filter, search_query,
                   current_match, matches, view_height, received, appends>>

\* (_, KeyCode::Esc)
KeyEsc ==
    /\ KeyRead
    /\ mode' = "Normal"
    /\ UNCHANGED <<scroll, tailing, filter, search_query, current_match, matches>>

\* (Mode::Normal, KeyCode::Char('n')) if !app.matches.is_empty()
KeyNextMatch ==
    /\ KeyRead
    /\ mode = "Normal"
    /\ matches # <<>>
    /\ current_match' = NextCursor(current_match, Len(matches))
    /\ scroll' = IF HasMatch(current_match') THEN MatchLine(current_match') ELSE scroll
    /\ mode' = "Normal"
    /\ UNCHANGED <<tailing, filter, search_query, matches>>

\* (Mode::Normal, KeyCode::Char('N')) if !app.matches.is_empty()
KeyPrevMatch ==
    /\ KeyRead
    /\ mode = "Normal"
    /\ matches # <<>>
    /\ current_match' = PrevCursor(current_match, Len(matches))
    /\ scroll' = IF HasMatch(current_match') THEN MatchLine(current_match') ELSE scroll
    /\ mode' = "Normal"
    /\ UNCHANGED <<tailing, filter, search_query, matches>>

\* the bound the 'j', 'd' and 'G' arms pass to the scroll methods
MaxScroll == SatSub(AppLen, view_height)

\* (Mode::Normal, KeyCode::Char('j'))
KeyLineDown ==
    /\ KeyRead
    /\ mode = "Normal"
    /\ scroll' = IF AppLen > view_height THEN ScrollDown(scroll, 1, MaxScroll) ELSE scroll
    /\ tailing' = FALSE
    /\ UNCHANGED <<mode, filter, search_query, current_match, matches>>

\* (Mode::Normal, KeyCode::Char('k'))
KeyLineUp ==
    /\ KeyRead
    /\ mode = "Normal"
    /\ scroll' = IF AppLen > view_height THEN ScrollUp(scroll, 1) ELSE scroll
    /\ tailing' = FALSE
    /\ UNCHANGED <<mode, filter, search_query, current_match, matches>>

\* (Mode::Normal, KeyCode::Char('d'))
KeyHalfDown ==
    /\ KeyRead
    /\ mode = "Normal"
    /\ scroll' = IF AppLen > view_height
                 THEN ScrollDown(scroll, view_height \div 2, MaxScroll)
                 ELSE scroll
    /\ tailing' = FALSE
    /\ UNCHANGED <<mode, filter, search_query, current_match, matches>>

\* (Mode::Normal, KeyCode::Char('u'))
KeyHalfUp ==
    /\ KeyRead
    /\ mode = "Normal"
    /\ scroll' = IF AppLen > view_height
                 THEN ScrollUp(scroll, view_height \div 2)
                 ELSE scroll
    /\ tailing' = FALSE
    /\ UNCHANGED <<mode, filter, search_query, current_match, matches>>

\* (Mode::Normal, KeyCode::Char('g'))
KeyTop ==
    /\ KeyRead
    /\ mode = "Normal"
    /\ scroll' = 0
    /\ tailing' = FALSE
    /\ UNCHANGED <<mode, filter, search_query, current_match, matches>>

\* (Mode::Normal, KeyCode::Char('G'))
KeyBottom ==
    /\ KeyRead
    /\ mode = "Normal"
    /\ scroll' = MaxScroll
    /\ tailing' = TRUE
    /\ UNCHANGED <<mode, filter, search_query, current_match, matches>>

\* (Mode::Normal, KeyCode::Char('f'))
KeySearch ==
    /\ KeyRead
    /\ mode = "Normal"
    /\ search_query' = <<>>
    /\ matches' = UpdateSearch(lines, search_query')
    /\ mode' = "Search"
    /\ UNCHANGED <<scroll, tailing, filter, current_match>>

\* (Mode::Search, KeyCode::Char(c)) for the character c
SearchCharOf(c) ==
    /\ KeyRead
    /\ mode = "Search"
    /\ Len(search_query) + Len(filter) < MaxText
    /\ search_query' = Append(search_query, c)
    /\ matches' = UpdateSearch(lines, search_query')
    /\ UNCHANGED <<scroll, mode, tailing, filter, current_match>>

\* (Mode::Search, KeyCode::Char(c))
SearchChar == \E c \in Chars : SearchCharOf(c)

\* String::pop
Pop(s) == IF s = <<>> THEN s ELSE SubSeq(s, 1, Len(s) - 1)

\* (Mode::Search, KeyCode::Backspace)
SearchBackspace ==
    /\ KeyRead
    /\ mode = "Search"
    /\ search_query' = Pop(search_query)
    /\ matches' = UpdateSearch(lines, search_query')
    /\ UNCHANGED <<scroll, mode, tailing, filter, current_match>>

\* (Mode::Search, KeyCode::Enter)
SearchEnter ==
    /\ KeyRead
    /\ mode = "Search"
    /\ scroll' = IF matches # <<>> /\ HasMatch(current_match)
                 THEN MatchLine(current_match)
                 ELSE scroll
    /\ search_query' = <<>>
    /\ mode' = "Normal"
    /\ UNCHANGED <<tailing, filter, current_match, matches>>

\* (Mode::Normal, KeyCode::Char('/'))
KeyFilter ==
    /\ KeyRead
    /\ mode = "Normal"
    /\ filter' = <<>>
    /\ mode' = "Filter"
    /\ UNCHANGED <<scroll, tailing, search_query, current_match, matches>>

\* (Mode::Filter, KeyCode::Char(c)) for the character c
FilterCharOf(c) ==
    /\ KeyRead
    /\ mode = "Filter"
    /\ Len(search_query) + Len(filter) < MaxText
    /\ filter' = Append(filter, c)
    /\ UNCHANGED <<scroll, mode, tailing, search_query, current_match, matches>>

\* (Mode::Filter, KeyCode::Char(c))
FilterChar == \E c \in Chars : FilterCharOf(c)

\* (Mode::Filter, KeyCode::Backspace)
FilterBackspace ==
    /\ KeyRead
    /\ mode = "Filter"
    /\ filter' = Pop(filter)
    /\ UNCHANGED <<scroll, mode, tailing, search_query, current_match, matches>>

\* (Mode::Filter, KeyCode::Enter)
FilterEnter ==
    /\ KeyRead
    /\ mode = "Filter"
    /\ mode' = "Normal"
    /\ UNCHANGED <<scroll, tailing, filter, search_query, current_match, matches>>

\* a fall-through arm that stops tailing, as the movement arms do
KeyOtherStopsTailing ==
    /\ KeyRead
    /\ tailing' = FALSE
    /\ UNCHANGED <<scroll, mode, filter, search_query, current_match, matches>>

\* _ => {}: Enter or Backspace in Normal, 'n' or 'N' with no matches, a
\* character with no arm in Normal, a key that is no character in any mode
KeyOther ==
    /\ KeyRead
    /\ UNCHANGED <<scroll, mode, tailing, filter, search_query, current_match, matches>>

\* KeyCode::Char(c): the characters with an arm in Normal mode, and "x"
\* for a character with none
CharKeys == {"q", "n", "N", "j", "k", "d", "u", "g", "G", "f", "/", "x"}

\* the key codes: the characters, the three keys with an arm, and "Tab" for
\* a key with none
Keys == CharKeys \cup {"Esc", "Enter", "Backspace", "Tab"}

\* match (app.mode, key.code): the arm that runs for the key k, the arms
\* tried in the order of the source
Press(k) ==
    IF mode = "Normal" /\ k = "q" THEN KeyQuit
    ELSE IF k = "Esc" THEN KeyEsc
    ELSE IF mode = "Normal" /\ k = "n" /\ matches # <<>> THEN KeyNextMatch
    ELSE IF mode = "Normal" /\ k = "N" /\ matches # <<>> THEN KeyPrevMatch
    ELSE IF mode = "Normal" /\ k = "j" THEN KeyLineDown
    ELSE IF mode = "Normal" /\ k = "k" THEN KeyLineUp
    ELSE IF mode = "Normal" /\ k = "d" THEN KeyHalfDown
    ELSE IF mode = "Normal" /\ k = "u" THEN KeyHalfUp
    ELSE IF mode = "Normal" /\ k = "g" THEN KeyTop
    ELSE IF mode = "Normal" /\ k = "G" THEN KeyBottom
    ELSE IF mode = "Normal" /\ k = "f" THEN KeySearch
    ELSE IF mode = "Search" /\ k \in CharKeys THEN SearchCharOf(k)
    ELSE IF mode = "Search" /\ k = "Backspace" THEN SearchBackspace
    ELSE IF mode = "Search" /\ k = "Enter" THEN SearchEnter
    ELSE IF mode = "Normal" /\ k = "/" THEN KeyFilter
    ELSE IF mode = "Filter" /\ k \in CharKeys THEN FilterCharOf(k)
    ELSE IF mode = "Filter" /\ k = "Backspace" THEN FilterBackspace
    ELSE IF mode = "Filter" /\ k = "Enter" THEN FilterEnter
    ELSE KeyOther

Next ==
    \/ Ingest
    \/ Draw
    \/ Timeout
    \/ KeyQuit
    \/ KeyEsc
    \/ KeyNextMatch
    \/ KeyPrevMatch
    \/ KeyLineDown
    \/ KeyLineUp
    \/ KeyHalfDown
    \/ KeyHalfUp
    \/ KeyTop
    \/ KeyBottom
    \/ KeySearch
    \/ SearchChar
    \/ SearchBackspace
    \/ SearchEnter
    \/ KeyFilter
    \/ FilterChar
    \/ FilterBackspace
    \/ FilterEnter
    \/ KeyOther

Spec == Init /\ [][Next]_vars

\* ---- update_search on any buffer and query ----

\* the buffers that at most n bytes of stdin give
RECURSIVE BuffersUpTo(_)
BuffersUpTo(n) ==
    IF n = 0 THEN {<<>>}
    ELSE {<<>>} \cup
         UNION {{<<l>> \o b : b \in BuffersUpTo(n - Len(l) - 1)} : l \in StringsUpTo(n - 1)}

\* Search mode with a query typed while the buffer was still empty and the
\* lines appended since: the next Search key runs update_search on them
SearchInit ==
    /\ lines \in BuffersUpTo(SearchMaxInput)
    /\ search_query \in StringsUpTo(SearchMaxQuery)
    /\ matches = <<>>
    /\ mode = "Search"
    /\ scroll = 0
    /\ tailing = TRUE
    /\ filter = <<>>
    /\ current_match = 0
    /\ view_height \in Heights
    /\ pc = "poll"
    /\ output = <<>>
    /\ received = lines
    /\ appends = Len(lines)
    /\ idle = FALSE

SearchNext ==
    \/ Draw
    \/ SearchChar
    \/ SearchBackspace

SearchSpec == SearchInit /\ [][SearchNext]_vars

\* ---- the key dispatcher over short inputs ----

\* bytes of stdin read in a run of the dispatcher specification
DispatchMaxInput == 3

\* the ingestor, stopped after DispatchMaxInput bytes
DispatchIngest ==
    /\ Ingest
    /\ InputBytes(lines') <= DispatchMaxInput

DispatchNext ==
    \/ DispatchIngest
    \/ Draw
    \/ Timeout
    \/ KeyQuit
    \/ KeyEsc
    \/ KeyNextMatch
    \/ KeyPrevMatch
    \/ KeyLineDown
    \/ KeyLineUp
    \/ KeyHalfDown
    \/ KeyHalfUp
    \/ KeyTop
    \/ KeyBottom
    \/ KeySearch
    \/ SearchChar
    \/ SearchBackspace
    \/ SearchEnter
    \/ KeyFilter
    \/ FilterChar
    \/ FilterBackspace
    \/ FilterEnter
    \/ KeyOther

DispatchSpec == Init /\ [][DispatchNext]_vars

\* ---- properties ----

\* pat occurs in line at the 0-based offset s
Occurs(line, pat, s) ==
    /\ s >= 0
    /\ s + Len(pat) <= Len(line)
    /\ \A j \in 1..Len(pat) : line[s + j] = pat[j]

\* line is visible under the filter f
Shows(line, f) == \E s \in 0..Len(line) : Occurs(line, f, s)

\* the indices (1-based) of the buffered lines that the filter lets through
PassIdx == {i \in 1..Len(lines) : Shows(lines[i], filter)}

filtered_count == Cardinality(PassIdx)

\* the k-th smallest element of PassIdx
NthPass(k) == CHOOSE i \in PassIdx : Cardinality({j \in PassIdx : j <= i}) = k

\* seq is the buffer restricted to the lines the filter lets through
IsFilteredBuffer(seq) ==
    /\ Len(seq) = filtered_count
    /\ \A k \in 1..Len(seq) : seq[k] = lines[NthPass(k)]

\* C1: in every reachable state scroll lies in
\* [0, max(0, filtered_count - viewport_height)]
C1_ScrollInRange ==
    /\ scroll >= 0
    /\ scroll <= SatSub(filtered_count, view_height)

\* C2: whenever the match list is non-empty, match_cursor is less than its
\* length
C2_CursorInRange == matches # <<>> => current_match < Len(matches)

\* C3: while no key event has been delivered, every draw finds scroll at the
\* tail of the buffer, scroll = max(0, n - viewport_height) for n lines
C3_TailFollows ==
    (idle /\ pc = "draw") => scroll = SatSub(Len(lines), view_height)

\* the match list M is what the search of q over the buffer L must return
MatchListOK(L, q, M) ==
    /\ q = <<>> => M = <<>>
    /\ \A k \in 1..Len(M) :
        /\ M[k][1] \in 0..(Len(L) - 1)
        /\ M[k][2] < M[k][3]
        /\ M[k][3] - M[k][2] = Len(q)
        /\ Occurs(L[M[k][1] + 1], q, M[k][2])
    /\ \A k1, k2 \in 1..Len(M) :
        k1 < k2 =>
            \/ M[k1][1] < M[k2][1]
            \/ M[k1][1] = M[k2][1] /\ M[k1][3] <= M[k2][2]
    /\ q # <<>> =>
        \A i \in 1..Len(L) : \A s \in 0..Len(L[i]) :
            Occurs(L[i], q, s) =>
                \/ \E k \in 1..Len(M) : M[k] = <<i - 1, s, s + Len(q)>>
                \/ \E k \in 1..Len(M) :
                    M[k][1] = i - 1 /\ M[k][2] < s /\ s < M[k][3]

\* C4: after update_search the match list is sorted by (line, start), every
\* match is a verbatim occurrence of the query with start < end, matches of
\* one line do not overlap, every occurrence of the query is in the list or
\* overlaps a match that starts to its left, and the empty query has no
\* matches
C4_SearchResult == pc = "draw" => MatchListOK(lines, search_query, matches)

C4_Witness ==
    /\ pc = "draw"
    /\ Len(search_query) = 2
    /\ \E i \in 1..Len(lines) :
        /\ Occurs(lines[i], search_query, 0)
        /\ Occurs(lines[i], search_query, 1)
    /\ Len(matches) >= 2

\* C5: when the loop ends by the quit key the output is the buffered lines
\* that contain the filter, each once, in arrival order
C5_ExitOutput == pc = "done" => IsFilteredBuffer(output)

C5_Witness ==
    /\ pc = "done"
    /\ filter # <<>>
    /\ Len(lines) = 3
    /\ Len(output) = 2
    /\ ~Shows(lines[2], filter)

\* C6: the visible sequence of a frame is the lines that contain the filter
\* in arrival order, and clearing the filter (entering Filter mode again or
\* backspacing it to empty) gives back the whole buffer in its order
ClearsFilter == KeyFilter \/ (FilterBackspace /\ Len(filter) = 1)

C6_FilterRoundTrip ==
    /\ []IsFilteredBuffer(Visible)
    /\ [][ClearsFilter => (filter' = <<>> /\ Visible' = lines')]_vars

C6_Witness ==
    /\ mode = "Filter"
    /\ filter # <<>>
    /\ Len(lines) = 3
    /\ Len(Visible) = 1
    /\ pc = "poll"

\* the absolute index (0-based) of the line shown at position idx of the
\* filtered sequence
AbsIndex(idx) == NthPass(idx + 1) - 1

RECURSIVE ConcatText(_)
ConcatText(spans) ==
    IF spans = <<>> THEN <<>> ELSE Head(spans).text \o ConcatText(Tail(spans))

\* C7: in every frame that is built, the span texts of each row inside the
\* window concatenate to the text of the line of that row, and a line with
\* no match in the match list is one unhighlighted span, the whole line
C7_SpansReproduceLine ==
    (pc = "draw" /\ ~DrawPanics) =>
        \A idx \in WindowRows :
            LET line == Visible[idx + 1]
                spans == RowSpans(idx, line).spans
            IN  /\ ConcatText(spans) = line
                /\ (\A k \in 1..Len(matches) : matches[k][1] # AbsIndex(idx))
                      => spans = <<[text |-> line, highlighted |-> FALSE,
                                    current |-> FALSE]>>

\* C8: with a non-empty match list, next_match then prev_match, and
\* prev_match then next_match, bring match_cursor back to where it started
C8_NextPrevRoundTrip ==
    (mode = "Normal" /\ pc = "poll" /\ matches # <<>>) =>
        LET n == Len(matches)
        IN  /\ PrevCursor(NextCursor(current_match, n), n) = current_match
            /\ NextCursor(PrevCursor(current_match, n), n) = current_match

\* C9: the buffer length never decreases and equals the number of completed
\* appends, lines in the buffer are never changed, removed or reordered, and
\* the buffer is a prefix of the input in arrival order
C9_AppendOnly ==
    [][/\ Len(lines') >= Len(lines)
       /\ SubSeq(lines', 1, Len(lines)) = lines
       /\ Len(lines') = appends'
       /\ Len(lines') <= Len(received')
       /\ lines' = SubSeq(received', 1, Len(lines'))
      ]_vars

C9_Witness ==
    /\ Len(lines) = 3
    /\ lines[1] # lines[2]
    /\ lines[2] # lines[3]
    /\ idle = FALSE
    /\ pc = "draw"

\* C10: from a scroll within the filtered bound, the keys 'j', 'd' and 'G'
\* leave scroll at most max(0, filtered_count - viewport_height)
C10_DownKeysFilteredBound ==
    [][((KeyLineDown \/ KeyHalfDown \/ KeyBottom)
          /\ scroll <= SatSub(filtered_count, view_height))
        => scroll' <= SatSub(filtered_count', view_height')]_vars

\* the fields of the view state
view == <<scroll, tailing, mode, search_query, filter, matches, current_match>>

MovementKeys == {"j", "k", "d", "u", "g", "G"}

\* C11: while at most viewport_height lines pass the filter, each movement
\* key pressed in Normal mode leaves the whole view state unchanged
C11_MovementNoOpWhenFits ==
    [][\A k \in MovementKeys :
          (mode = "Normal" /\ filtered_count <= view_height /\ Press(k))
            => UNCHANGED view]_vars

\* C12: at every frame the match list is the search of the current query
\* over the current buffer, and is empty when the query is empty
C12_MatchesCurrent ==
    pc = "draw" =>
        /\ search_query = <<>> => matches = <<>>
        /\ MatchListOK(lines, search_query, matches)

\* the highlighted spans that the matches of the line with the absolute
\* index a give, in the order of the match list
ExpectedHighlights(a) ==
    LET ks == SelectSeq([k \in 1..Len(matches) |-> k - 1],
                        LAMBDA k : matches[k + 1][1] = a)
    IN  [j \in 1..Len(ks) |->
            [text |-> SubSeq(lines[a + 1], matches[ks[j] + 1][2] + 1,
                             matches[ks[j] + 1][3]),
             highlighted |-> TRUE,
             current |-> (ks[j] = current_match)]]

\* C13: in every frame that is built, the highlighted spans of each row are
\* the matches whose line_index is the absolute index of the line of the
\* row, and the one flagged current is the match at match_cursor
C13_HighlightsOfShownLine ==
    (pc = "draw" /\ ~DrawPanics) =>
        \A idx \in WindowRows :
            SelectSeq(RowSpans(idx, Visible[idx + 1]).spans,
                      LAMBDA sp : sp.highlighted)
                = ExpectedHighlights(AbsIndex(idx))

\* C14: the search-entry key in Normal mode leads to Search mode with an
\* empty query, an empty match list and match_cursor 0
C14_SearchEntryResets ==
    [][(mode = "Normal" /\ Press("f")) =>
          /\ mode' = "Search"
          /\ search_query' = <<>>
          /\ matches' = <<>>
          /\ current_match' = 0]_vars

\* C15: 'n' and 'N' act only in Normal mode with a non-empty match list:
\* the cursor becomes (cursor + 1) mod len, (cursor - 1) mod len, scroll
\* the line of the match at the new cursor, the mode stays Normal; elsewhere
\* they change neither the cursor nor scroll
C15_NextPrevKeys ==
    [][/\ (mode = "Normal" /\ matches # <<>> /\ Press("n")) =>
            /\ current_match' = (current_match + 1) % Len(matches)
            /\ scroll' = matches[current_match' + 1][1]
            /\ mode' = "Normal"
       /\ (mode = "Normal" /\ matches # <<>> /\ Press("N")) =>
            /\ current_match' = (current_match - 1 + Len(matches)) % Len(matches)
            /\ scroll' = matches[current_match' + 1][1]
            /\ mode' = "Normal"
       /\ \A k \in {"n", "N"} :
            ((mode # "Normal" \/ matches = <<>>) /\ Press(k)) =>
                UNCHANGED <<current_match, scroll>>
      ]_vars

\* C16: Esc in Search or Filter mode leads to Normal; Enter leads to Normal
\* and keeps the typed query or filter; Enter in Search mode with a
\* non-empty match list sets scroll to the line of the match at the cursor
C16_CancelAndAccept ==
    [][/\ (mode \in {"Search", "Filter"} /\ Press("Esc")) => mode' = "Normal"
       /\ (mode = "Search" /\ Press("Enter")) =>
            /\ mode' = "Normal"
            /\ search_query' = search_query
            /\ matches # <<>> =>
                /\ current_match < Len(matches)
                /\ scroll' = matches[current_match + 1][1]
       /\ (mode = "Filter" /\ Press("Enter")) =>
            /\ mode' = "Normal"
            /\ filter' = filter
      ]_vars

ManualScrollKeys == {"j", "k", "d", "u"}

\* C17: tailing is true at the start; a manual scroll key sets it to false;
\* it becomes true again only by 'G' while the content exceeds the
\* viewport; nothing else changes it
C17_TailingFlag ==
    /\ tailing = TRUE
    /\ [][/\ \A k \in ManualScrollKeys :
                (mode = "Normal" /\ Press(k)) => tailing' = FALSE
          /\ tailing' # tailing =>
                \/ \E k \in ManualScrollKeys : mode = "Normal" /\ Press(k)
                \/ /\ mode = "Normal"
                   /\ Press("G")
                   /\ filtered_count > view_height
                   /\ tailing'
         ]_vars

\* the combinations of mode and key that section 4.3 of the specification
\* gives no transition
NotEnumerated(m, k) ==
    \/ m = "Normal" /\ k \in {"Enter", "Backspace", "Tab", "x"}
    \/ m = "Normal" /\ k \in {"n", "N"} /\ matches = <<>>
    \/ m \in {"Search", "Filter"} /\ k = "Tab"

\* the typed text is at the bound of the model
TextFull == Len(search_query) + Len(filter) >= MaxText

C19_QuitKey ==
    /\ [](/\ pc = "draw" => ENABLED (Draw /\ pc' = "poll")
          /\ pc = "poll" => ENABLED (Press("Esc") /\ mode' = "Normal")
          /\ (pc = "poll" /\ mode = "Normal") => ENABLED (Press("q") /\ pc' = "done"))
    /\ [][/\ (mode = "Normal" /\ Press("q")) => pc' = "done"
          /\ (pc' = "done" /\ pc # "done") => (mode = "Normal" /\ Press("q"))
          /\ (mode = "Search" /\ Press("q")) =>
                /\ search_query' = Append(search_query, "q")
                /\ MatchListOK(lines', search_query', matches')
                /\ pc' = "draw"
          /\ (mode = "Filter" /\ Press("q")) =>
                /\ filter' = Append(filter, "q")
                /\ pc' = "draw"
         ]_vars

\* C20: at every draw, for every row inside the window and every match the
\* frame builder applies to it, last_end <= start <= end <= the length of
\* the text of the row
C20_SlicesInRange ==
    pc = "draw" =>
        \A idx \in WindowRows :
            LET ms == LineMatchIdx(idx)
                line == Visible[idx + 1]
            IN  \A j \in 1..Len(ms) :
                    /\ matches[ms[j] + 1][2] <= matches[ms[j] + 1][3]
                    /\ matches[ms[j] + 1][3] <= Len(line)
                    /\ j > 1 => matches[ms[j - 1] + 1][3] <= matches[ms[j] + 1][2]

TypeOK ==
    /\ InputBytes(lines) <= MaxInput
    /\ mode \in {"Normal", "Search", "Filter"}
    /\ pc \in {"draw", "poll", "done", "panicked"}
    /\ tailing \in BOOLEAN
====
